---- MODULE Spec2Model ----
(***************************************************************************)
(* Verification model of the ragatouille-book notebooks:                   *)
(*   - the CRAG / Self-RAG graph of book/9_Generation_2.ipynb              *)
(*   - the RAPTOR recursion of book/6_Indexing.ipynb                       *)
(*   - reciprocal rank fusion (rrf) and the semantic router                *)
(* LLM, retriever, web-search and clustering results are external and are  *)
(* modelled as nondeterministic choices from small sets.                   *)
(***************************************************************************)
EXTENDS Integers, Sequences, FiniteSets, TLC

VARIABLES
    \* ---- graph of 9_Generation_2.ipynb
    pc,          \* next thing the compiled graph runs: START, a node, an edge function, END
    state,       \* GraphState: a dict, keys are added as nodes write them
    route,       \* datasource returned by query_routing_chain ("none" before routing)
    trace,       \* history: nodes executed so far, in order
    gradings,    \* history: (document, grade) pairs produced by grading_chain
    evals,       \* history: one record per evaluate_response call
    genInputs,   \* history: the documents value handed to qa_chain by each generate
    genWrites,   \* history: number of writes of state["generation"]
    \* ---- RAPTOR recursion of 6_Indexing.ipynb
    stack,       \* call stack of recursive_embed_cluster_summarize frames
    n_levels,    \* the n_levels argument
    level0,      \* the level argument of the outermost call
    returned,    \* dict returned by the outermost call
    rpc,         \* "run", "done" (returned), "indexed" (all_texts built) or
                 \* "error" (an exception propagated)
    leaf_texts,  \* the texts handed to the outermost call
    all_texts,   \* the text list the RAPTOR vectorstore is built from
    \* ---- rrf
    results,     \* rrf argument: list of ranked lists of documents
    k,           \* rrf argument
    reranked,    \* value returned by rrf
    fpc,         \* "call" or "done"
    \* ---- semantic router
    query_embedding,   \* embeddings.embed_query(input["question"])
    route_embeddings,  \* embeddings.embed_documents(routes)
    announced,         \* which message router printed
    prompt,            \* template wrapped by the returned PromptTemplate
    spc,               \* "call" or "done"
    \* ---- get_optimal_clusters / GMM_cluster of 6_Indexing.ipynb
    emb_count,     \* len(embeddings)
    max_clusters,  \* the max_clusters argument of get_optimal_clusters
    bics,          \* gm.bic(embeddings) of the mixture fitted with n components
    optimal,       \* value returned by get_optimal_clusters
    opc,           \* "call", "done" or "error"
    threshold,     \* the threshold argument of GMM_cluster
    probs,         \* gm.predict_proba(embeddings)
    labels,        \* labels returned by GMM_cluster
    n_clusters,    \* n_clusters returned by GMM_cluster
    gpc            \* "call", "done" or "error"

graphVars  == <<pc, state, route, trace, gradings, evals, genInputs, genWrites>>
raptorVars == <<stack, n_levels, level0, returned, rpc, leaf_texts, all_texts>>
rrfVars    == <<results, k, reranked, fpc>>
routerVars == <<query_embedding, route_embeddings, announced, prompt, spc>>
gmmVars    == <<emb_count, max_clusters, bics, optimal, opc,
                threshold, probs, labels, n_clusters, gpc>>
vars == <<graphVars, raptorVars, rrfVars, routerVars, gmmVars>>

\* ---------------------------------------------------------------- bounds
MaxSteps     == 5   \* node executions explored in one run of the graph
MaxRetrieved == 2   \* documents the retriever returns at most

\* ---------------------------------------------------------------- helpers
Range(s) == {s[i] : i \in 1..Len(s)}

SeqsUpTo(S, n) == UNION {[1..m -> S] : m \in 0..n}

SetKey(d, key, v) == [x \in DOMAIN d \cup {key} |-> IF x = key THEN v ELSE d[x]]

\* ================================================================ GRAPH
Questions      == {"q1", "q2"}
Datasources    == {"vectorstore", "web_search", "fallback"}
Grades         == {"yes", "no", "unsure"}     \* grade: str, any string may come back
StoreContents  == {"s1", "s2"}
WebContents    == {"w1"}
Generations    == {"g1", "g2"}

Document(c)    == [page_content |-> c]
StoreDocuments == {Document(c) : c \in StoreContents}

\* A documents value is a Python list of Documents (retrieve, grade_documents)
\* or one bare Document (web_search).
DocList(s)     == [type |-> "list", items |-> s]
DocSingle(d)   == [type |-> "Document", items |-> <<d>>]

\* Python truthiness of a documents value: only the empty list is falsy.
Truthy(docs)   == ~(docs.type = "list" /\ docs.items = <<>>)

GraphIdle ==
    /\ pc = "END" /\ state = [question |-> "q1"] /\ route = "none"
    /\ trace = <<>> /\ gradings = <<>> /\ evals = <<>>
    /\ genInputs = <<>> /\ genWrites = 0

GraphInit ==
    /\ pc = "START"
    /\ state \in {[question |-> q] : q \in Questions}
    /\ route = "none"
    /\ trace = <<>> /\ gradings = <<>> /\ evals = <<>>
    /\ genInputs = <<>> /\ genWrites = 0

\* route_question with the last two branches exchanged
route_question_swapped(datasource) ==
    IF datasource = "vectorstore" THEN "retrieve"
    ELSE IF datasource = "web_search" THEN "fallback"
    ELSE "web_search"

\* route_question: the node name chosen for a datasource
route_question(datasource) ==
    IF datasource = "vectorstore" THEN "retrieve"
    ELSE IF datasource = "web_search" THEN "web_search"
    ELSE "fallback"

\* set_conditional_entry_point mapping
EntryPoint(name) ==
    CASE name = "retrieve"   -> "retrieve"
      [] name = "web_search" -> "web_search"
      [] name = "fallback"   -> "fallback"

\* decide_to_generate
decide_to_generate(filtered_documents) ==
    IF ~Truthy(filtered_documents) THEN "web_search" ELSE "generate"

\* evaluate_response without the answer grader's verdict
evaluate_response_ungraded(hallucination_grade, answer_grade) ==
    IF hallucination_grade = "yes" THEN "useful" ELSE "not supported"

\* evaluate_response; answer_grade is only read when the first grade is "yes"
evaluate_response(hallucination_grade, answer_grade) ==
    IF hallucination_grade = "yes"
    THEN IF answer_grade = "yes" THEN "useful" ELSE "notuseful"
    ELSE "not supported"

\* retrieve wired straight to generate; fallback wired on to web_search
EdgeAfterRetrieveUngraded == "generate"
EdgeAfterFallbackOn       == "web_search"

\* the 'useful' verdict wired back to generate instead of END
EdgesAfterGenerateNoEnd(decision) ==
    CASE decision = "useful"        -> "generate"
      [] decision = "notuseful"     -> "web_search"
      [] decision = "not supported" -> "generate"

\* workflow edges
EdgeAfterRetrieve  == "grade_documents"
EdgeAfterWebSearch == "generate"
EdgeAfterFallback  == "END"
EdgesAfterGrade(decision) ==
    CASE decision = "web_search" -> "web_search"
      [] decision = "generate"   -> "generate"
EdgesAfterGenerate(decision) ==
    CASE decision = "useful"        -> "END"
      [] decision = "notuseful"     -> "web_search"
      [] decision = "not supported" -> "generate"

\* grade_documents keeps the documents graded exactly 'yes', in order
RECURSIVE FilterRelevant(_, _)
FilterRelevant(documents, grades) ==
    IF documents = <<>> THEN <<>>
    ELSE (IF Head(grades) = "yes" THEN <<Head(documents)>> ELSE <<>>)
         \o FilterRelevant(Tail(documents), Tail(grades))

RouteQuestion ==
    /\ pc = "START"
    /\ \E datasource \in Datasources :
        /\ route' = datasource
        /\ pc' = EntryPoint(route_question(datasource))
    /\ UNCHANGED <<state, trace, gradings, evals, genInputs, genWrites>>
    /\ UNCHANGED <<raptorVars, rrfVars, routerVars, gmmVars>>

Retrieve ==
    /\ pc = "retrieve"
    /\ Len(trace) < MaxSteps
    /\ \E documents \in SeqsUpTo(StoreDocuments, MaxRetrieved) :
        state' = SetKey(state, "documents", DocList(documents))
    /\ trace' = Append(trace, "retrieve")
    /\ pc' = EdgeAfterRetrieve
    /\ UNCHANGED <<route, gradings, evals, genInputs, genWrites>>
    /\ UNCHANGED <<raptorVars, rrfVars, routerVars, gmmVars>>

GradeDocuments ==
    /\ pc = "grade_documents"
    /\ Len(trace) < MaxSteps
    /\ LET documents == state["documents"].items IN
       \E grades \in [1..Len(documents) -> Grades] :
        /\ gradings' = gradings \o [i \in 1..Len(documents) |->
                                      <<documents[i], grades[i]>>]
        /\ state' = SetKey(state, "documents",
                           DocList(FilterRelevant(documents, grades)))
    /\ trace' = Append(trace, "grade_documents")
    /\ pc' = "decide_to_generate"
    /\ UNCHANGED <<route, evals, genInputs, genWrites>>
    /\ UNCHANGED <<raptorVars, rrfVars, routerVars, gmmVars>>

DecideToGenerate ==
    /\ pc = "decide_to_generate"
    /\ pc' = EdgesAfterGrade(decide_to_generate(state["documents"]))
    /\ UNCHANGED <<state, route, trace, gradings, evals, genInputs, genWrites>>
    /\ UNCHANGED <<raptorVars, rrfVars, routerVars, gmmVars>>

WebSearch ==
    /\ pc = "web_search"
    /\ Len(trace) < MaxSteps
    /\ \E c \in WebContents :
        state' = SetKey(state, "documents", DocSingle(Document(c)))
    /\ trace' = Append(trace, "web_search")
    /\ pc' = EdgeAfterWebSearch
    /\ UNCHANGED <<route, gradings, evals, genInputs, genWrites>>
    /\ UNCHANGED <<raptorVars, rrfVars, routerVars, gmmVars>>

Fallback ==
    /\ pc = "fallback"
    /\ Len(trace) < MaxSteps
    /\ \E generation \in Generations :
        state' = SetKey(state, "generation", generation)
    /\ genWrites' = genWrites + 1
    /\ trace' = Append(trace, "fallback")
    /\ pc' = EdgeAfterFallback
    /\ UNCHANGED <<route, gradings, evals, genInputs>>
    /\ UNCHANGED <<raptorVars, rrfVars, routerVars, gmmVars>>

Generate ==
    /\ pc = "generate"
    /\ Len(trace) < MaxSteps
    /\ genInputs' = Append(genInputs, state["documents"])
    /\ \E generation \in Generations :
        state' = SetKey(state, "generation", generation)
    /\ genWrites' = genWrites + 1
    /\ trace' = Append(trace, "generate")
    /\ pc' = "evaluate_response"
    /\ UNCHANGED <<route, gradings, evals>>
    /\ UNCHANGED <<raptorVars, rrfVars, routerVars, gmmVars>>

EvaluateResponse ==
    /\ pc = "evaluate_response"
    /\ \E hallucination_grade \in Grades :
       \E answer_grade \in (IF hallucination_grade = "yes"
                            THEN Grades ELSE {"not invoked"}) :
        /\ evals' = Append(evals,
              [question            |-> state["question"],
               documents           |-> state["documents"],
               generation          |-> state["generation"],
               hallucination_grade |-> hallucination_grade,
               answer_grade        |-> answer_grade,
               decision |-> evaluate_response(hallucination_grade, answer_grade)])
        /\ pc' = EdgesAfterGenerate(
                    evaluate_response(hallucination_grade, answer_grade))
    /\ UNCHANGED <<state, route, trace, gradings, genInputs, genWrites>>
    /\ UNCHANGED <<raptorVars, rrfVars, routerVars, gmmVars>>

\* ---------------------------------------------------------------- runs of any length
\* The same nodes without the cap on the length of a run: trace keeps the
\* first MaxSteps nodes, evals keeps the latest evaluation only, the other
\* histories are not kept.
Recorded(node) == IF Len(trace) < MaxSteps THEN Append(trace, node) ELSE trace

RetrieveLive ==
    /\ pc = "retrieve"
    /\ \E documents \in SeqsUpTo(StoreDocuments, MaxRetrieved) :
        state' = SetKey(state, "documents", DocList(documents))
    /\ trace' = Recorded("retrieve")
    /\ pc' = EdgeAfterRetrieve
    /\ UNCHANGED <<route, gradings, evals, genInputs, genWrites>>
    /\ UNCHANGED <<raptorVars, rrfVars, routerVars, gmmVars>>

GradeDocumentsLive ==
    /\ pc = "grade_documents"
    /\ LET documents == state["documents"].items IN
       \E grades \in [1..Len(documents) -> Grades] :
        state' = SetKey(state, "documents",
                        DocList(FilterRelevant(documents, grades)))
    /\ trace' = Recorded("grade_documents")
    /\ pc' = "decide_to_generate"
    /\ UNCHANGED <<route, gradings, evals, genInputs, genWrites>>
    /\ UNCHANGED <<raptorVars, rrfVars, routerVars, gmmVars>>

WebSearchLive ==
    /\ pc = "web_search"
    /\ \E c \in WebContents :
        state' = SetKey(state, "documents", DocSingle(Document(c)))
    /\ trace' = Recorded("web_search")
    /\ pc' = EdgeAfterWebSearch
    /\ UNCHANGED <<route, gradings, evals, genInputs, genWrites>>
    /\ UNCHANGED <<raptorVars, rrfVars, routerVars, gmmVars>>

FallbackLive ==
    /\ pc = "fallback"
    /\ \E generation \in Generations :
        state' = SetKey(state, "generation", generation)
    /\ trace' = Recorded("fallback")
    /\ pc' = EdgeAfterFallback
    /\ UNCHANGED <<route, gradings, evals, genInputs, genWrites>>
    /\ UNCHANGED <<raptorVars, rrfVars, routerVars, gmmVars>>

GenerateLive ==
    /\ pc = "generate"
    /\ \E generation \in Generations :
        state' = SetKey(state, "generation", generation)
    /\ trace' = Recorded("generate")
    /\ pc' = "evaluate_response"
    /\ UNCHANGED <<route, gradings, evals, genInputs, genWrites>>
    /\ UNCHANGED <<raptorVars, rrfVars, routerVars, gmmVars>>

\* evaluate_response with the two grades given
Evaluated(hallucination_grade, answer_grade) ==
    /\ pc = "evaluate_response"
    /\ evals' = <<[question            |-> state["question"],
                   documents           |-> state["documents"],
                   generation          |-> state["generation"],
                   hallucination_grade |-> hallucination_grade,
                   answer_grade        |-> answer_grade,
                   decision |-> evaluate_response(hallucination_grade, answer_grade)]>>
    /\ pc' = EdgesAfterGenerate(evaluate_response(hallucination_grade, answer_grade))
    /\ UNCHANGED <<state, route, trace, gradings, genInputs, genWrites>>
    /\ UNCHANGED <<raptorVars, rrfVars, routerVars, gmmVars>>

\* both graders answer 'yes'
EvaluateYesLive == Evaluated("yes", "yes")

\* some grader answers something else
EvaluateOtherLive ==
    \E hallucination_grade \in Grades :
    \E answer_grade \in (IF hallucination_grade = "yes"
                         THEN Grades \ {"yes"} ELSE {"not invoked"}) :
        Evaluated(hallucination_grade, answer_grade)

\* ================================================================ RAPTOR
MaxTexts    == 12   \* leaf texts handed to the outermost call, at most
MaxClusters == 12   \* clusters one clustering produces, at most
MaxLevel0   == 3    \* largest level argument of the outermost call
MaxNLevels  == 3    \* largest n_levels argument

dim == 10           \* perform_clustering(text_embeddings_np, 10, 0.1)

\* A text is identified by where it came from: leaf i is [level 0, cluster i],
\* the summary the LLM wrote for cluster c at level l is [level l, cluster c].
Text(l, c) == [level |-> l, cluster |-> c]
LeafTexts(n) == [i \in 1..n |-> Text(0, i)]

EmptyDict == [x \in {} |-> 0]

\* dict.update(other): keys of other override
DictUpdate(d, other) ==
    [x \in DOMAIN d \cup DOMAIN other |-> IF x \in DOMAIN other THEN other[x] ELSE d[x]]

\* The unique cluster ids (expanded_df["cluster"].unique()) a clustering of n
\* texts can give.  With at most dim + 1 texts perform_clustering labels every
\* text [0]; otherwise UMAP and the Gaussian mixtures decide, and any number
\* of clusters, none included, can come out.  Only the number of distinct
\* ids is read by the recursion; they are numbered 0 .. c-1.
AllClusters(n) ==
    IF n <= dim + 1
    THEN {[i \in 1..(IF n = 0 THEN 0 ELSE 1) |-> 0]}
    ELSE {[i \in 1..c |-> i - 1] : c \in 0..MaxClusters}

\* embed_cluster_summarize_texts: (df_clusters, df_summary) for a clustering
\* whose unique cluster ids are all_clusters; one summary per cluster.
embed_cluster_summarize_texts(texts, level, all_clusters) ==
    [df_clusters |-> [text |-> texts],
     df_summary  |-> [summaries |-> [i \in 1..Len(all_clusters) |->
                                        Text(level, all_clusters[i])],
                      level     |-> [i \in 1..Len(all_clusters) |-> level],
                      cluster   |-> all_clusters]]

\* df_summary["cluster"].nunique()
nunique(column) == Cardinality(Range(column))

\* the guard with an off-by-one depth test / with a too large cluster test
ShouldRecurseDeeper(level, nlevels, unique_clusters) ==
    level <= nlevels /\ unique_clusters > 1
ShouldRecurseMany(level, nlevels, unique_clusters) ==
    level < nlevels /\ unique_clusters > 2

\* the guard of the recursive call
ShouldRecurse(level, nlevels, unique_clusters) ==
    level < nlevels /\ unique_clusters > 1

Frame(texts, level) ==
    [texts |-> texts, level |-> level, results |-> EmptyDict, at |-> "start"]

RaptorIdle ==
    /\ stack = <<>> /\ n_levels = 1 /\ level0 = 1
    /\ returned = EmptyDict /\ rpc = "indexed"
    /\ leaf_texts = <<>> /\ all_texts = <<>>

RaptorInit ==
    /\ n_levels \in 1..MaxNLevels
    /\ level0 \in 1..MaxLevel0
    /\ leaf_texts \in {LeafTexts(n) : n \in 0..MaxTexts}
    /\ stack = <<Frame(leaf_texts, level0)>>
    /\ returned = EmptyDict
    /\ rpc = "run"
    /\ all_texts = <<>>

Top == stack[Len(stack)]

\* The body of one call up to the recursive call: an empty expanded_df has
\* no "cluster" column, so indexing it raises and the whole call chain dies.
RaptorRaise ==
    /\ rpc = "run" /\ stack # <<>> /\ Top.at = "start"
    /\ <<>> \in AllClusters(Len(Top.texts))
    /\ rpc' = "error"
    /\ UNCHANGED <<stack, n_levels, level0, returned, leaf_texts, all_texts>>
    /\ UNCHANGED <<graphVars, rrfVars, routerVars, gmmVars>>

RaptorProcess ==
    /\ rpc = "run" /\ stack # <<>> /\ Top.at = "start"
    /\ \E all_clusters \in AllClusters(Len(Top.texts)) \ {<<>>} :
        LET res == embed_cluster_summarize_texts(Top.texts, Top.level, all_clusters)
            results1 == DictUpdate(Top.results, [x \in {Top.level} |-> res])
            unique_clusters == nunique(res.df_summary.cluster)
            n == Len(stack)
        IN  IF ShouldRecurse(Top.level, n_levels, unique_clusters)
            THEN stack' = Append([stack EXCEPT ![n].results = results1,
                                               ![n].at = "await"],
                                 Frame(res.df_summary.summaries, Top.level + 1))
            ELSE stack' = [stack EXCEPT ![n].results = results1,
                                        ![n].at = "return"]
    /\ UNCHANGED <<n_levels, level0, returned, rpc, leaf_texts, all_texts>>
    /\ UNCHANGED <<graphVars, rrfVars, routerVars, gmmVars>>

\* return results: the caller merges them with results.update(...) and is
\* then at its own return statement
RaptorReturn ==
    /\ rpc = "run" /\ stack # <<>> /\ Top.at = "return"
    /\ LET n == Len(stack) IN
       IF n = 1
       THEN /\ returned' = Top.results
            /\ rpc' = "done"
            /\ stack' = <<>>
       ELSE /\ stack' = [SubSeq(stack, 1, n - 1) EXCEPT
                            ![n - 1].results = DictUpdate(stack[n - 1].results, Top.results),
                            ![n - 1].at = "return"]
            /\ UNCHANGED <<returned, rpc>>
    /\ UNCHANGED <<n_levels, level0, leaf_texts, all_texts>>
    /\ UNCHANGED <<graphVars, rrfVars, routerVars, gmmVars>>

\* all_texts.extend(summaries) in the reverse order of the levels
RECURSIVE ExtendBySummariesDescending(_, _, _)
ExtendBySummariesDescending(texts, res, keys) ==
    IF keys = {} THEN texts
    ELSE LET level == CHOOSE l \in keys : \A m \in keys : m <= l
         IN  ExtendBySummariesDescending(texts \o res[level].df_summary.summaries,
                                         res, keys \ {level})

\* for level in sorted(results.keys()): all_texts.extend(summaries),
\* keys being the levels still to visit
RECURSIVE ExtendBySummaries(_, _, _)
ExtendBySummaries(texts, res, keys) ==
    IF keys = {} THEN texts
    ELSE LET level == CHOOSE l \in keys : \A m \in keys : l <= m
         IN  ExtendBySummaries(texts \o res[level].df_summary.summaries,
                               res, keys \ {level})

\* the cell that builds all_texts from leaf_texts and results
BuildAllTexts ==
    /\ rpc = "done"
    /\ all_texts' = ExtendBySummaries(leaf_texts, returned, DOMAIN returned)
    /\ rpc' = "indexed"
    /\ UNCHANGED <<stack, n_levels, level0, returned, leaf_texts>>
    /\ UNCHANGED <<graphVars, rrfVars, routerVars, gmmVars>>

\* ================================================================ RRF
MaxLists == 2       \* ranked lists handed to rrf, at most
MaxRank  == 2       \* documents in one ranked list, at most

\* Documents: page_content and metadata both distinguish them.
RankedDocuments ==
    {[page_content |-> "a", metadata |-> 0],
     [page_content |-> "a", metadata |-> 1],
     [page_content |-> "b", metadata |-> 0]}

Ks == {1, 60}       \* k = 60 is the default

\* a serialisation that loses the metadata
dumps_content_only(doc) == <<"Document", doc.page_content, 0>>

\* langchain.load.dumps / loads: the serialised form of a Document carries
\* its type name and both fields; loads rebuilds the Document from it.
dumps(doc)     == <<"Document", doc.page_content, doc.metadata>>
loads(doc_str) == [page_content |-> doc_str[2], metadata |-> doc_str[3]]

\* Scores are exact fractions num / ScoreDen(kk): every 1 / (rank + kk) with
\* rank < RankLimit is a whole multiple of 1 / ScoreDen(kk).
RankLimit == MaxRank + 1
RECURSIVE ScoreDenUpTo(_, _)
ScoreDenUpTo(kk, r) == IF r = 0 THEN kk ELSE (r + kk) * ScoreDenUpTo(kk, r - 1)
ScoreDen(kk) == ScoreDenUpTo(kk, RankLimit - 1)

\* ranks counted from 1
RankOfOneBased(i) == i

\* enumerate(docs): the rank of the document at (1-based) index i
RankOf(i) == i - 1

\* 1 / (rank + k)
Reciprocal(rank, kk) == ScoreDen(kk) \div (rank + kk)

\* fused_scores is a dict, kept as the sequence of its items in insertion order
HasKey(fused, key) == \E i \in 1..Len(fused) : fused[i].key = key

\* the body of the inner loop for one (rank, doc)
FuseOne(fused, rank, doc, kk) ==
    LET doc_str == dumps(doc)
        f0 == IF HasKey(fused, doc_str) THEN fused
              ELSE Append(fused, [key |-> doc_str, score |-> 0])
    IN  [i \in 1..Len(f0) |->
            IF f0[i].key = doc_str
            THEN [f0[i] EXCEPT !.score = @ + Reciprocal(rank, kk)]
            ELSE f0[i]]

\* for rank, doc in enumerate(docs), from index i on
RECURSIVE FuseList(_, _, _, _)
FuseList(fused, docs, i, kk) ==
    IF i > Len(docs) THEN fused
    ELSE FuseList(FuseOne(fused, RankOf(i), docs[i], kk), docs, i + 1, kk)

\* for docs in results, from list j on
RECURSIVE FuseAll(_, _, _, _)
FuseAll(fused, res, j, kk) ==
    IF j > Len(res) THEN fused
    ELSE FuseAll(FuseList(fused, res[j], 1, kk), res, j + 1, kk)

\* an unstable placement: an item goes before the items of equal score
ComesBeforeStrict(placed, item) == placed.score > item.score

\* sorted(..., key=score, reverse=True) is stable: an item goes after every
\* item already placed whose score is at least its own.
ComesBefore(placed, item) == placed.score >= item.score

RECURSIVE InsertSorted(_, _)
InsertSorted(sorted, item) ==
    IF sorted = <<>> THEN <<item>>
    ELSE IF ComesBefore(Head(sorted), item)
         THEN <<Head(sorted)>> \o InsertSorted(Tail(sorted), item)
         ELSE <<item>> \o sorted

RECURSIVE SortedByScore(_, _)
SortedByScore(items, n) ==
    IF n = 0 THEN <<>>
    ELSE InsertSorted(SortedByScore(items, n - 1), items[n])

rrf(res, kk) ==
    LET fused_scores == FuseAll(<<>>, res, 1, kk)
        ordered == SortedByScore(fused_scores, Len(fused_scores))
    IN  [i \in 1..Len(ordered) |->
            [doc |-> loads(ordered[i].key), score |-> ordered[i].score]]

RrfIdle ==
    /\ results = <<>> /\ k = 60 /\ reranked = <<>> /\ fpc = "done"

RrfInit ==
    /\ results \in SeqsUpTo(SeqsUpTo(RankedDocuments, MaxRank), MaxLists)
    /\ k \in Ks
    /\ reranked = <<>>
    /\ fpc = "call"

RrfCall ==
    /\ fpc = "call"
    /\ reranked' = rrf(results, k)
    /\ fpc' = "done"
    /\ UNCHANGED <<results, k>>
    /\ UNCHANGED <<graphVars, raptorVars, routerVars, gmmVars>>

\* ================================================================ SEMANTIC ROUTER
EmbMax == 1         \* embedding components range over -EmbMax .. EmbMax

routes == <<"physics_template", "math_template">>

\* Embeddings are directions: nonzero integer vectors.
Vectors ==
    {v \in ((0 - EmbMax)..EmbMax) \X ((0 - EmbMax)..EmbMax) : \E i \in 1..Len(v) : v[i] # 0}

RECURSIVE DotUpTo(_, _, _)
DotUpTo(a, b, n) == IF n = 0 THEN 0 ELSE a[n] * b[n] + DotUpTo(a, b, n - 1)
Dot(a, b) == DotUpTo(a, b, Len(a))

\* cosine_similarity of two vectors, held as the exact fraction num / den of
\* its signed square  sign(a.b) * (a.b)^2 / (|a|^2 |b|^2),  which orders
\* pairs of vectors exactly as the cosine itself does.
Cosine(a, b) ==
    LET d == Dot(a, b) IN
    [num |-> (IF d < 0 THEN 0 - d * d ELSE d * d), den |-> Dot(a, a) * Dot(b, b)]

Greater(x, y) == x.num * y.den > y.num * x.den

\* cosine_similarity([query_embedding], route_embeddings)[0]
Similarity(q, re) == [i \in 1..Len(re) |-> Cosine(q, re[i])]

\* an argmax that keeps the last maximum
RECURSIVE ArgmaxLastFrom(_, _, _)
ArgmaxLastFrom(sim, best, i) ==
    IF i > Len(sim) THEN best - 1
    ELSE ArgmaxLastFrom(sim, IF Greater(sim[best], sim[i]) THEN best ELSE i, i + 1)
argmax_last(sim) == ArgmaxLastFrom(sim, 1, 2)

\* numpy argmax (0-based): scan left to right, keep the first maximum
RECURSIVE ArgmaxFrom(_, _, _)
ArgmaxFrom(sim, best, i) ==
    IF i > Len(sim) THEN best - 1
    ELSE ArgmaxFrom(sim, IF Greater(sim[i], sim[best]) THEN i ELSE best, i + 1)
argmax(sim) == ArgmaxFrom(sim, 1, 2)

\* the message router prints for a route_id
Announce(route_id) == IF route_id = 0 THEN "physics" ELSE "math"

RouterIdle ==
    /\ query_embedding = <<>> /\ route_embeddings = <<>>
    /\ announced = "none" /\ prompt = "none" /\ spc = "done"

RouterInit ==
    /\ query_embedding \in Vectors
    /\ route_embeddings \in [1..Len(routes) -> Vectors]
    /\ announced = "none" /\ prompt = "none" /\ spc = "call"

Router ==
    /\ spc = "call"
    /\ LET similarity == Similarity(query_embedding, route_embeddings)
           route_id == argmax(similarity)
       IN  /\ announced' = Announce(route_id)
           /\ prompt' = routes[route_id + 1]
    /\ spc' = "done"
    /\ UNCHANGED <<query_embedding, route_embeddings>>
    /\ UNCHANGED <<graphVars, raptorVars, rrfVars, gmmVars>>

\* ================================================================ GMM CLUSTERING
MaxEmbeddings == 3      \* embeddings handed to the clustering, at most
ProbUnits     == 4      \* posterior probabilities are multiples of 1 / ProbUnits

DefaultMaxClusters == 50
BicValues == {0, 1}     \* BIC values, only their order matters

Min(a, b) == IF a <= b THEN a ELSE b

\* np.arange(1, max_clusters): a sequence, the stop value is excluded
arange(start, stop) == [i \in 1..(stop - start) |-> start + i - 1]

\* np.argmin (0-based): scan left to right, keep the first minimum
RECURSIVE ArgminFrom(_, _, _)
ArgminFrom(values, best, i) ==
    IF i > Len(values) THEN best - 1
    ELSE ArgminFrom(values, IF values[i] < values[best] THEN i ELSE best, i + 1)
argmin(values) == ArgminFrom(values, 1, 2)

\* get_optimal_clusters, up to the return statement: the candidate counts
\* and the BIC of each; bic[n] is the BIC of the mixture with n components
Candidates(count, maxc) == arange(1, Min(maxc, count))
CandidateBics(count, maxc, bic) ==
    [i \in 1..Len(Candidates(count, maxc)) |-> bic[Candidates(count, maxc)[i]]]

\* np.argmin of an empty list raises ValueError
OptimalRaises(count, maxc) == Candidates(count, maxc) = <<>>

\* get_optimal_clusters: n_clusters[np.argmin(bics)]
get_optimal_clusters(count, maxc, bic) ==
    Candidates(count, maxc)[argmin(CandidateBics(count, maxc, bic)) + 1]

\* one row of predict_proba over c components: probabilities, in units of
\* 1 / ProbUnits, that add up to one
RECURSIVE SumSeq(_)
SumSeq(row) == IF row = <<>> THEN 0 ELSE Head(row) + SumSeq(Tail(row))
ProbRows(c) == {row \in [1..c -> 0..ProbUnits] : SumSeq(row) = ProbUnits}

\* prob >= threshold in place of prob > threshold
RECURSIVE WhereAtLeast(_, _, _)
WhereAtLeast(prob, thr, j) ==
    IF j > Len(prob) THEN <<>>
    ELSE (IF prob[j] >= thr THEN <<j - 1>> ELSE <<>>) \o WhereAtLeast(prob, thr, j + 1)

\* np.where(prob > threshold)[0]: the 0-based indices, ascending, from
\* (1-based) position j on
RECURSIVE WhereGreater(_, _, _)
WhereGreater(prob, thr, j) ==
    IF j > Len(prob) THEN <<>>
    ELSE (IF prob[j] > thr THEN <<j - 1>> ELSE <<>>) \o WhereGreater(prob, thr, j + 1)

\* labels = [np.where(prob > threshold)[0] for prob in probs]
Labels(pr, thr) == [i \in 1..Len(pr) |-> WhereGreater(pr[i], thr, 1)]

GmmIdle ==
    /\ emb_count = 0 /\ max_clusters = DefaultMaxClusters /\ bics = <<>>
    /\ optimal = 0 /\ opc = "done"
    /\ threshold = 0 /\ probs = <<>> /\ labels = <<>> /\ n_clusters = 0
    /\ gpc = "done"

\* a call of get_optimal_clusters
OptimalInit ==
    /\ emb_count \in 1..MaxEmbeddings
    /\ max_clusters \in (1..(MaxEmbeddings + 1)) \cup {DefaultMaxClusters}
    /\ bics \in [1..emb_count -> BicValues]
    /\ optimal = 0 /\ opc = "call"
    /\ threshold = 0 /\ probs = <<>> /\ labels = <<>> /\ n_clusters = 0
    /\ gpc = "done"

\* a call of GMM_cluster; it calls get_optimal_clusters(embeddings)
GmmInit ==
    /\ emb_count \in 1..MaxEmbeddings
    /\ max_clusters = DefaultMaxClusters
    /\ bics \in [1..emb_count -> BicValues]
    /\ optimal = 0 /\ opc = "done"
    /\ threshold \in 0..ProbUnits
    /\ probs = <<>> /\ labels = <<>> /\ n_clusters = 0
    /\ gpc = "call"

GetOptimalClusters ==
    /\ opc = "call"
    /\ ~OptimalRaises(emb_count, max_clusters)
    /\ optimal' = get_optimal_clusters(emb_count, max_clusters, bics)
    /\ opc' = "done"
    /\ UNCHANGED <<emb_count, max_clusters, bics, threshold, probs, labels,
                   n_clusters, gpc>>
    /\ UNCHANGED <<graphVars, raptorVars, rrfVars, routerVars>>

GetOptimalClustersRaise ==
    /\ opc = "call"
    /\ OptimalRaises(emb_count, max_clusters)
    /\ opc' = "error"
    /\ UNCHANGED <<emb_count, max_clusters, bics, optimal, threshold, probs,
                   labels, n_clusters, gpc>>
    /\ UNCHANGED <<graphVars, raptorVars, rrfVars, routerVars>>

GMMCluster ==
    /\ gpc = "call"
    /\ ~OptimalRaises(emb_count, max_clusters)
    /\ LET n == get_optimal_clusters(emb_count, max_clusters, bics) IN
       \E pr \in [1..emb_count -> ProbRows(n)] :
          /\ probs' = pr
          /\ labels' = Labels(pr, threshold)
          /\ n_clusters' = n
    /\ gpc' = "done"
    /\ UNCHANGED <<emb_count, max_clusters, bics, optimal, opc, threshold>>
    /\ UNCHANGED <<graphVars, raptorVars, rrfVars, routerVars>>

GMMClusterRaise ==
    /\ gpc = "call"
    /\ OptimalRaises(emb_count, max_clusters)
    /\ gpc' = "error"
    /\ UNCHANGED <<emb_count, max_clusters, bics, optimal, opc, threshold,
                   probs, labels, n_clusters>>
    /\ UNCHANGED <<graphVars, raptorVars, rrfVars, routerVars>>

\* ================================================================ SPECIFICATIONS
GraphNext ==
    \/ RouteQuestion
    \/ Retrieve
    \/ GradeDocuments
    \/ DecideToGenerate
    \/ WebSearch
    \/ Fallback
    \/ Generate
    \/ EvaluateResponse

RaptorNext ==
    \/ RaptorRaise
    \/ RaptorProcess
    \/ RaptorReturn
    \/ BuildAllTexts

RrfNext == RrfCall

RouterNext == Router

Init == GraphInit /\ RaptorIdle /\ RrfIdle /\ RouterIdle /\ GmmIdle
Next == GraphNext
Spec == Init /\ [][Next]_vars

InitRaptor == GraphIdle /\ RaptorInit /\ RrfIdle /\ RouterIdle /\ GmmIdle
SpecRaptor == InitRaptor /\ [][RaptorNext]_vars

InitRrf == GraphIdle /\ RaptorIdle /\ RrfInit /\ RouterIdle /\ GmmIdle
SpecRrf == InitRrf /\ [][RrfNext]_vars

InitRouter == GraphIdle /\ RaptorIdle /\ RrfIdle /\ RouterInit /\ GmmIdle
SpecRouter == InitRouter /\ [][RouterNext]_vars

\* Runs of any length.  The graph runs its next node whenever there is one
\* (weak fairness), and the graders do not answer something other than
\* 'yes' forever (strong fairness of the all-'yes' evaluation).
NextLive ==
    \/ RouteQuestion
    \/ RetrieveLive
    \/ GradeDocumentsLive
    \/ DecideToGenerate
    \/ WebSearchLive
    \/ FallbackLive
    \/ GenerateLive
    \/ EvaluateYesLive
    \/ EvaluateOtherLive
SpecLive ==
    Init /\ [][NextLive]_vars /\ WF_vars(NextLive) /\ SF_vars(EvaluateYesLive)

OptimalNext ==
    \/ GetOptimalClusters
    \/ GetOptimalClustersRaise
InitOptimal == GraphIdle /\ RaptorIdle /\ RrfIdle /\ RouterIdle /\ OptimalInit
SpecOptimal == InitOptimal /\ [][OptimalNext]_vars

GmmNext ==
    \/ GMMCluster
    \/ GMMClusterRaise
InitGmm == GraphIdle /\ RaptorIdle /\ RrfIdle /\ RouterIdle /\ GmmInit
SpecGmm == InitGmm /\ [][GmmNext]_vars

\* ================================================================ PROPERTIES
Last(s) == s[Len(s)]

\* ---------------------------------------------------------------- graph
\* C2: the first node a run executes is fixed by the router's datasource:
\* 'vectorstore' enters at retrieve, 'web_search' at web_search, anything
\* else at fallback; no other node can be first.  Between routing and the
\* first node, the node about to run is already that entry node.
C2_EntryNode ==
    LET first == IF trace = <<>> THEN pc ELSE trace[1] IN
    pc # "START" =>
        /\ first \in {"retrieve", "web_search", "fallback"}
        /\ (route = "vectorstore") <=> (first = "retrieve")
        /\ (route = "web_search") <=> (first = "web_search")
        /\ (route \notin {"vectorstore", "web_search"}) <=> (first = "fallback")

C2_Witness ==
    /\ route = "web_search" /\ Len(trace) >= 2 /\ trace[1] = "web_search"

\* C3: in a run routed to the vectorstore every retrieve is immediately
\* followed by grade_documents, every generate comes after a
\* grade_documents, and every retriever document handed to generate was
\* graded 'yes' by the document grader.
C3_GradedBeforeGenerate ==
    route = "vectorstore" =>
        /\ \A i \in 1..Len(trace) : trace[i] = "retrieve" =>
              IF i < Len(trace) THEN trace[i + 1] = "grade_documents"
              ELSE pc = "grade_documents"
        /\ \A i \in 1..Len(trace) : trace[i] = "generate" =>
              \E j \in 1..(i - 1) : trace[j] = "grade_documents"
        /\ \A n \in 1..Len(genInputs) :
              \A d \in Range(genInputs[n].items) :
                 d \in StoreDocuments => <<d, "yes">> \in Range(gradings)
        /\ pc = "generate" =>
              \A d \in Range(state["documents"].items) :
                 d \in StoreDocuments => <<d, "yes">> \in Range(gradings)

C3_Witness ==
    /\ route = "vectorstore"
    /\ Len(genInputs) >= 1
    /\ genInputs[1].type = "list"
    /\ \E i \in 1..Len(gradings) : gradings[i][2] # "yes"

\* C4: a run that ends after the generate node ended on a 'useful'
\* evaluation: the generation in the final state was graded 'yes' by the
\* hallucination grader against the documents in the state and 'yes' by the
\* answer grader against the question; every earlier evaluation of the run
\* gave another verdict, and each generate was evaluated once.
C4_FinishedIsUseful ==
    (pc = "END" /\ trace # <<>> /\ Last(trace) = "generate") =>
        /\ evals # <<>>
        /\ Last(evals).decision = "useful"
        /\ Last(evals).hallucination_grade = "yes"
        /\ Last(evals).answer_grade = "yes"
        /\ Last(evals).generation = state["generation"]
        /\ Last(evals).documents = state["documents"]
        /\ Last(evals).question = state["question"]
        /\ \A i \in 1..(Len(evals) - 1) :
              ~(evals[i].hallucination_grade = "yes" /\ evals[i].answer_grade = "yes")
        /\ Len(evals) = Cardinality({i \in 1..Len(trace) : trace[i] = "generate"})

C4_Witness ==
    /\ pc = "END" /\ trace # <<>> /\ Last(trace) = "generate"
    /\ Len(evals) >= 2
    /\ evals[1].hallucination_grade = "yes"
    /\ evals[1].answer_grade = "no"

\* C6: when the router selects fallback the run executes the fallback node
\* and then ends: retrieve, grade_documents, web_search and generate never
\* run, no grader is invoked, and generation is written exactly once.
C6_FallbackOnly ==
    route = "fallback" =>
        /\ trace \in {<<>>, <<"fallback">>}
        /\ trace = <<>> => (pc = "fallback" /\ genWrites = 0)
        /\ trace = <<"fallback">> =>
              (pc = "END" /\ genWrites = 1 /\ "generation" \in DOMAIN state)
        /\ gradings = <<>> /\ evals = <<>> /\ genInputs = <<>>
        /\ "documents" \notin DOMAIN state

C6_Witness ==
    /\ route = "fallback" /\ pc = "END" /\ trace = <<"fallback">> /\ genWrites = 1

\* ---------------------------------------------------------------- RAPTOR
Levels == DOMAIN returned
TopLevel == CHOOSE l \in Levels : \A m \in Levels : m <= l
ClustersAt(l) == nunique(returned[l].df_summary.cluster)
StopsAt(l) == ClustersAt(l) = 1 \/ l >= n_levels

\* C1: a call recurses from level k to k+1 exactly when k < n_levels and
\* level k produced more than one unique cluster: the returned keys are the
\* contiguous levels level..L, L being the first processed level with
\* exactly one cluster or >= n_levels, and for level <= n_levels there are at
\* most n_levels - level + 1 of them.  While the calls are running, the
\* frames below the top one are exactly those that met the condition.
C1_LevelsProcessed ==
    /\ rpc = "done" =>
          /\ \E L \in Levels :
                /\ Levels = level0..L
                /\ StopsAt(L)
                /\ \A l \in level0..(L - 1) : ~StopsAt(l)
          /\ level0 <= n_levels => Cardinality(Levels) <= n_levels - level0 + 1
          /\ \A l \in Levels : \A i \in 1..Len(returned[l].df_summary.level) :
                returned[l].df_summary.level[i] = l
    /\ \A i \in 1..Len(stack) :
          /\ stack[i].level = level0 + i - 1
          /\ i < Len(stack) =>
                /\ stack[i].level < n_levels
                /\ nunique(stack[i].results[stack[i].level].df_summary.cluster) > 1

C1_Witness ==
    /\ rpc = "done" /\ level0 = 1 /\ n_levels = 3
    /\ Levels = 1..3
    /\ ClustersAt(3) > 1

RECURSIVE SummariesBelow(_)
SummariesBelow(l) ==
    IF l <= level0 THEN 0
    ELSE Len(returned[l - 1].df_summary.summaries) + SummariesBelow(l - 1)

\* C11: all_texts is every leaf text in its original order followed by the
\* summaries of each level in ascending level order; no leaf text is
\* removed and its length is the number of leaf texts plus the number of
\* summaries over all levels of the result.
C11_AllTexts ==
    rpc = "indexed" /\ returned # EmptyDict =>
        /\ Len(all_texts) = Len(leaf_texts) + SummariesBelow(TopLevel + 1)
        /\ \A i \in 1..Len(leaf_texts) : all_texts[i] = leaf_texts[i]
        /\ \A l \in Levels :
              \A i \in 1..Len(returned[l].df_summary.summaries) :
                 all_texts[Len(leaf_texts) + SummariesBelow(l) + i]
                    = returned[l].df_summary.summaries[i]

C11_Witness ==
    /\ rpc = "indexed" /\ Cardinality(Levels) = 3
    /\ \A l \in Levels : Len(returned[l].df_summary.summaries) >= 2
    /\ Len(all_texts) > Len(leaf_texts) + Cardinality(Levels)

\* ---------------------------------------------------------------- rrf
\* sum of ScoreDen(k) / (r + k) over a set of (list, index) positions, r = index - 1
RECURSIVE SumReciprocals(_)
SumReciprocals(S) ==
    IF S = {} THEN 0
    ELSE LET p == CHOOSE y \in S : TRUE
         IN  (ScoreDen(k) \div ((p[2] - 1) + k)) + SumReciprocals(S \ {p})

\* every (list, index) at which document d occurs in the input
Occurrences(d) ==
    {p \in (1..Len(results)) \X (1..RankLimit) :
        p[2] <= Len(results[p[1]]) /\ results[p[1]][p[2]] = d}

InputDocuments == UNION {Range(results[j]) : j \in 1..Len(results)}

\* numerator of the sum of 1 / (r + k) over the occurrences of d, r 0-based
ExpectedScore(d) ==
    SumReciprocals(Occurrences(d))

\* C7: every document's fused score is the sum, over every occurrence of
\* the document at 0-based position r in any input list (repeats inside one
\* list included), of 1 / (r + k).
C7_FusedScore ==
    fpc = "done" =>
        /\ \A d \in InputDocuments :
              \E i \in 1..Len(reranked) :
                 reranked[i].doc = d /\ reranked[i].score = ExpectedScore(d)
        /\ \A i \in 1..Len(reranked) :
              reranked[i].score = ExpectedScore(reranked[i].doc)
        /\ \A r \in 0..(RankLimit - 1) : (r + k) * (ScoreDen(k) \div (r + k)) = ScoreDen(k)

C7_Witness ==
    /\ fpc = "done" /\ Len(results) = 2
    /\ \E d \in InputDocuments :
          /\ \E a, b \in Occurrences(d) : a[1] = 1 /\ b[1] = 1 /\ a[2] # b[2]
          /\ \E c \in Occurrences(d) : c[1] = 2 /\ c[2] = 2

\* position of the first occurrence of d in iteration order
FirstSeen(d) ==
    CHOOSE p \in Occurrences(d) :
        \A q \in Occurrences(d) : p[1] < q[1] \/ (p[1] = q[1] /\ p[2] <= q[2])

Earlier(p, q) == p[1] < q[1] \/ (p[1] = q[1] /\ p[2] < q[2])

\* C8: the pairs come in non-increasing order of fused score, and documents
\* of equal score keep the order in which they were first encountered.
C8_SortedStable ==
    fpc = "done" =>
        \A i, j \in 1..Len(reranked) : i < j =>
            /\ reranked[i].score >= reranked[j].score
            /\ reranked[i].score = reranked[j].score =>
                  Earlier(FirstSeen(reranked[i].doc), FirstSeen(reranked[j].doc))

C8_Witness ==
    /\ fpc = "done" /\ Len(reranked) = 3
    /\ reranked[1].score > reranked[2].score
    /\ reranked[2].score = reranked[3].score

\* C9: the output holds each distinct document exactly once and its
\* documents are exactly the union of the documents of the input lists.
C9_EachDocumentOnce ==
    fpc = "done" =>
        /\ \A i, j \in 1..Len(reranked) : i # j => reranked[i].doc # reranked[j].doc
        /\ {reranked[i].doc : i \in 1..Len(reranked)} = InputDocuments

C9_Witness ==
    /\ fpc = "done" /\ Len(reranked) = 2
    /\ \E d \in InputDocuments : Cardinality(Occurrences(d)) >= 3

\* ---------------------------------------------------------------- semantic router
\* C10: router returns the template routes[i] whose embedding has the
\* highest cosine similarity with the query embedding, the lowest index
\* winning a tie, and announces a physics question exactly when i = 0.
C10_RouterPicksMax ==
    spc = "done" =>
        \E i \in 1..Len(routes) :
            /\ prompt = routes[i]
            /\ \A j \in 1..Len(routes) :
                  ~Greater(Cosine(query_embedding, route_embeddings[j]),
                           Cosine(query_embedding, route_embeddings[i]))
            /\ \A j \in 1..(i - 1) :
                  Greater(Cosine(query_embedding, route_embeddings[i]),
                          Cosine(query_embedding, route_embeddings[j]))
            /\ (announced = "physics") <=> (i - 1 = 0)
            /\ announced \in {"physics", "math"}

C10_Witness ==
    /\ spc = "done" /\ prompt = "physics_template" /\ announced = "physics"
    /\ route_embeddings[1] # route_embeddings[2]
    /\ ~Greater(Cosine(query_embedding, route_embeddings[1]),
                Cosine(query_embedding, route_embeddings[2]))

\* ---------------------------------------------------------------- GMM clustering
\* C12: GMM_cluster assigns softly: the label array of each embedding holds
\* exactly the indices of the mixture components whose posterior
\* probability for that embedding is strictly greater than threshold, each
\* once and in ascending order, so an embedding can carry several labels.
C12_SoftAssignment ==
    gpc = "done" =>
        /\ Len(labels) = emb_count
        /\ \A i \in 1..emb_count :
              /\ Range(labels[i]) =
                    {j - 1 : j \in {c \in 1..n_clusters : probs[i][c] > threshold}}
              /\ \A a, b \in 1..Len(labels[i]) : a < b => labels[i][a] < labels[i][b]

C12_Witness ==
    /\ gpc = "done" /\ threshold > 0
    /\ \E i \in 1..emb_count : Len(labels[i]) >= 2
    /\ \E i \in 1..emb_count : \E c \in 1..n_clusters :
          probs[i][c] = threshold /\ (c - 1) \notin Range(labels[i])

\* C13 as stated: get_optimal_clusters limits the maximum to the number of
\* embeddings, considers every count from 1 to that maximum and returns the
\* considered count with the minimal BIC, the smallest one on a tie.
C13_MinimalBicUpToMaximum ==
    opc = "done" =>
        LET maximum == Min(max_clusters, emb_count) IN
        /\ optimal \in 1..maximum
        /\ \A c \in 1..maximum : bics[optimal] <= bics[c]
        /\ \A c \in 1..(optimal - 1) : bics[c] > bics[optimal]

\* ---------------------------------------------------------------- termination
\* C14: every run eventually reaches END, provided the graders do not keep
\* answering something other than 'yes' forever; there is no retry
\* counter, and a run that is in the generate / web_search loop leaves it
\* only through an evaluation whose verdict is 'useful'.
C14_EventuallyEnd ==
    /\ <>(pc = "END")
    /\ [][(pc \in {"generate", "web_search", "evaluate_response"} /\ pc' = "END")
            => (pc = "evaluate_response" /\ Last(evals').decision = "useful")]_vars

\* a run that went round the loop until the recorded history was full and
\* then ended
C14_Witness ==
    /\ pc = "END" /\ Len(trace) = MaxSteps
    /\ \A i \in 2..MaxSteps : trace[i] \in {"generate", "web_search"}
    /\ evals # <<>> /\ Last(evals).decision = "useful"

====
